---- MODULE Spec2Model ----
(***************************************************************************)
(* A model of regobslib's APS data model (src/src/regobslib/aps.py):       *)
(* Data / Level / Day / Timeline / Aps, their deserialisation, the         *)
(* Day- and Level-level merge ("assimilate") and the to_frame filters.     *)
(*                                                                         *)
(* Python values are modelled as follows.                                  *)
(*   - An attribute that may be None is a sequence of length <= 1:         *)
(*     None is <<>>, the value v is <<v>>.                                 *)
(*   - A Level is a record with the fields floor, roof, index and one      *)
(*     field per value of WEATHER_ATTRS.                                   *)
(*   - Objects that are compared by identity (Level objects, the list      *)
(*     Day.levels) live in a heap: lvls[i] is the Level with id i and      *)
(*     lists[i] is the list with id i, a sequence of Level ids.            *)
(***************************************************************************)
EXTENDS Integers, Sequences, FiniteSets, TLC

VARIABLES
    lvls,       \* heap of Level objects: id -> Level record
    lists,      \* heap of list objects: id -> sequence of Level ids
    days,       \* the two input Day objects, "a" and "b"
    res,        \* outcome of the Day.assimilate call made so far
    touched,    \* TRUE once the caller has changed the returned Day
    lres,       \* outcome of the Level.assimilate call made so far
    aps,        \* the Aps whose tables are made: region -> Timeline -> Day
    frame,      \* outcome of the to_frame call made so far
    payload,    \* the arguments of deserialize: the json and the data_type
    dres,       \* outcome of the deserialize call made so far
    conn,       \* the fields of the Connection
    clock,      \* the time of day, in ticks
    calls,      \* the number of calls made on the Connection
    sres        \* outcome of the last call made on the Connection

mergeVars == <<lvls, lists, days, res, touched, lres>>
exportVars == <<aps, frame>>
deserVars == <<payload, dres>>
connVars == <<conn, clock, calls, sres>>
vars == <<mergeVars, exportVars, deserVars, connVars>>

(***************************************************************************)
(* Bounds of the model.                                                    *)
(***************************************************************************)
MaxBands == 3       \* most bands of an input Day
MaxVal == 2         \* largest floor / roof / index of a Level that is merged

(***************************************************************************)
(* Python values.                                                          *)
(***************************************************************************)
None == <<>>
Some(v) == <<v>>

\* bool(x) for x an int or None: None and 0 are falsy.
TruthyInt(x) == x # None /\ x[1] # 0

\* bool(x) for x a Data object or None: Data defines neither __bool__ nor
\* __len__, so every Data object is truthy.
TruthyObj(x) == x # None

\* Python's  x or y  on ints-or-None.
OrInt(x, y) == IF TruthyInt(x) THEN x ELSE y

\* Python's  x or y  on Data-or-None.
OrObj(x, y) == IF TruthyObj(x) THEN x ELSE y

Max(x, y) == IF x >= y THEN x ELSE y
Min(x, y) == IF x <= y THEN x ELSE y

\* The errors the merge raises.  Both are ValueError in the code; they are
\* told apart by their message.
NoError == "ok"
IncompatibleMerge == "ValueError: Incompatible days"
ConflictingData == "ValueError: Both levels have valid data"

(***************************************************************************)
(* Data and Level.                                                         *)
(***************************************************************************)
\* The values of the ordered dict WEATHER_ATTRS, in its order.
WEATHER_ATTRS ==
    <<"precip", "precip_max", "temp", "wind", "snow_depth", "new_snow", "new_snow_max">>

AttrSet == {WEATHER_ATTRS[i] : i \in 1..Len(WEATHER_ATTRS)}

\* Data(): every percentile None.
Data ==
    [perc00 |-> None, perc05 |-> None, perc25 |-> None, perc50 |-> None,
     perc75 |-> None, perc95 |-> None, perc100 |-> None]

\* Level(): the class attributes floor, roof, index are None and __init__
\* sets every weather attribute to None.
Level ==
    [floor |-> None, roof |-> None, index |-> None,
     precip |-> None, precip_max |-> None, temp |-> None, wind |-> None,
     snow_depth |-> None, new_snow |-> None, new_snow_max |-> None]

\* Level.__bool__
LevelBool(lvl) == \E k \in AttrSet : TruthyObj(lvl[k])

\* The helper of Level.assimilate:
\*   max(self_, other_) if self_ and other_ else self_ or other_
max_or_not_none(self_, other_) ==
    IF TruthyInt(self_) /\ TruthyInt(other_)
    THEN Some(Max(self_[1], other_[1]))
    ELSE OrInt(self_, other_)

\* The loop of Level.assimilate over WEATHER_ATTRS, from attribute number i
\* on; level is the Level built so far.  The raise ends the loop.
RECURSIVE AssimilateAttrs(_, _, _, _)
AssimilateAttrs(level, self, other, i) ==
    IF i > Len(WEATHER_ATTRS)
    THEN [error |-> NoError, level |-> level]
    ELSE LET attr == WEATHER_ATTRS[i]
             s == self[attr]
             o == other[attr]
         IN  IF TruthyObj(s) # TruthyObj(o)
             THEN AssimilateAttrs([level EXCEPT ![attr] = OrObj(s, o)], self, other, i + 1)
             ELSE IF TruthyObj(s) /\ TruthyObj(o)
                  THEN [error |-> ConflictingData, level |-> level]
                  ELSE AssimilateAttrs(level, self, other, i + 1)

\* Level.assimilate: the error raised, or the new Level.
LevelAssimilate(self, other) ==
    AssimilateAttrs(
        [Level EXCEPT !.floor = max_or_not_none(self.floor, other.floor),
                      !.roof = max_or_not_none(self.roof, other.roof),
                      !.index = max_or_not_none(self.index, other.index)],
        self, other, 1)

(***************************************************************************)
(* Day.assimilate.                                                         *)
(***************************************************************************)
\* The Level objects of the list with id l, in order.
LevelsOf(l) == [i \in 1..Len(lists[l]) |-> lvls[lists[l][i]]]

\* A variant of PairIndex that cycles through the shorter list instead of
\* repeating its last element.
PairIndexCycling(i, n) == i % n

\* self_i and other_i of the merge loop (0-based, as in the code).
PairIndex(i, n) == Min(i, n - 1)

\* A variant of LoopCount that stops at the end of the shorter list.
LoopCountShortest(sl, ol) == Min(Len(sl), Len(ol))

\* range(max(len(self.levels), len(other.levels)))
LoopCount(sl, ol) == Max(Len(sl), Len(ol))

\* The for loop of Day.assimilate from iteration i (0-based) on: acc holds the
\* Levels appended so far.  A raise in Level.assimilate ends the loop.
RECURSIVE AssimilateLoop(_, _, _, _)
AssimilateLoop(sl, ol, i, acc) ==
    IF i >= LoopCount(sl, ol)
    THEN [error |-> NoError, levels |-> acc, calls |-> i]
    ELSE LET self_i == PairIndex(i, Len(sl))
             other_i == PairIndex(i, Len(ol))
             level == LevelAssimilate(sl[self_i + 1], ol[other_i + 1])
         IN  IF level.error # NoError
             THEN [error |-> level.error, levels |-> acc, calls |-> i + 1]
             ELSE AssimilateLoop(sl, ol, i + 1, Append(acc, level.level))

\* Where the returned Day's list comes from: it is the list object of other,
\* the list object of self, or the list made by Day().
DayLevelsSource(sl, ol) ==
    IF sl = <<>> THEN "other" ELSE IF ol = <<>> THEN "self" ELSE "new"

\* The body of Day.assimilate after the date and region check: the Levels it
\* makes for the new list, the number of Level.assimilate calls, and the error
\* raised on the way.
DayAssimilateLevels(sl, ol) ==
    IF DayLevelsSource(sl, ol) # "new"
    THEN [error |-> NoError, levels |-> <<>>, calls |-> 0]
    ELSE AssimilateLoop(sl, ol, 0, <<>>)

\* A variant of Incompatible that compares the dates only.
IncompatibleDateOnly(self, other) == self.date # other.date

\* The check at the top of Day.assimilate.
Incompatible(self, other) ==
    self.date # other.date \/ self.region # other.region

\* Day.assimilate(self, other) on the Day objects self and other: the error it
\* raises (or NoError), the source of the returned Day's list, the Levels made
\* for a new list and the number of Level.assimilate calls made.
DayAssimilate(self, other) ==
    LET sl == LevelsOf(self.levels)
        ol == LevelsOf(other.levels)
        out == DayAssimilateLevels(sl, ol)
    IN  IF Incompatible(self, other)
        THEN [error |-> IncompatibleMerge, src |-> "none", levels |-> <<>>, calls |-> 0]
        ELSE [error |-> out.error, src |-> DayLevelsSource(sl, ol),
              levels |-> out.levels, calls |-> out.calls]

Other(sn) == IF sn = "a" THEN "b" ELSE "a"

\* x.assimilate(y) for the input Days x = days[sn] and y the other one.  Day()
\* makes an empty list; the Levels of the loop are new objects appended to it.
\* When one side has no levels the returned Day's levels attribute is bound to
\* the list object of the other side instead.
Assimilate(sn) ==
    /\ res.error = "none"
    /\ LET self == days[sn]
           other == days[Other(sn)]
           out == DayAssimilate(self, other)
           newList == Len(lists) + 1
           newIds == [i \in 1..Len(out.levels) |-> Len(lvls) + i]
       IN  IF out.error # NoError
           THEN /\ res' = [error |-> out.error, self |-> sn, day |-> None, calls |-> out.calls]
                /\ UNCHANGED <<lvls, lists>>
           ELSE /\ lvls' = lvls \o out.levels
                /\ lists' = Append(lists, newIds)
                /\ res' = [error |-> NoError, self |-> sn, calls |-> out.calls,
                           day |-> Some([date |-> self.date, region |-> self.region,
                                         levels |-> CASE out.src = "other" -> other.levels
                                                      [] out.src = "self" -> self.levels
                                                      [] OTHER -> newList])]
    /\ UNCHANGED <<days, touched, lres, exportVars, deserVars, connVars>>

\* The caller appends a Level to the returned Day:  day.levels.append(Level())
AppendLevel ==
    /\ res.error = NoError
    /\ ~touched
    /\ touched' = TRUE
    /\ lvls' = Append(lvls, Level)
    /\ lists' = [lists EXCEPT ![res.day[1].levels] = Append(@, Len(lvls) + 1)]
    /\ UNCHANGED <<days, res, lres, exportVars, deserVars, connVars>>

\* The caller changes the first band of the returned Day:
\*   day.levels[0].floor = v
SetFloor(v) ==
    /\ res.error = NoError
    /\ ~touched
    /\ lists[res.day[1].levels] # <<>>
    /\ touched' = TRUE
    /\ lvls' = [lvls EXCEPT ![lists[res.day[1].levels][1]].floor = Some(v)]
    /\ UNCHANGED <<lists, days, res, lres, exportVars, deserVars, connVars>>

(***************************************************************************)
(* The input Days of the merge.                                            *)
(***************************************************************************)
Dates == {1, 2}
Regions == {3003, 3007}

\* The Data objects the input bands hold, one per populated kind.
DataOf(v) == [Data EXCEPT !.perc50 = Some(v)]

InputKinds == {"temp", "wind"}
InputFloors == {None, Some(0)}

\* A band of an input Day: one kind populated.
InputBand(f, idx, k) ==
    [Level EXCEPT !.floor = f, !.index = Some(idx),
                  ![k] = Some(DataOf(IF k = "temp" THEN 1 ELSE 2))]

\* The band lists of an input Day: n bands with ascending band index from
\* base on, each holding one kind.  The lowest band starts at 0 or has no
\* floor; the band at position i > 1 starts at 500 * (i - 1).
InputBandLists ==
    UNION {
        { [i \in 1..n |-> InputBand(IF i = 1 THEN f ELSE Some(500 * (i - 1)),
                                    base + i - 1, ks[i])] :
            ks \in [1..n -> InputKinds] } :
        n \in 0..MaxBands, base \in 1..2, f \in InputFloors }

NoResult == [error |-> "none", self |-> "a", day |-> None, calls |-> 0]
NoLevelResult == [error |-> "none", self |-> 1, level |-> None]
\* Connection.__init__
NewConnection(prod) ==
    [expires |-> None, session |-> None, guid |-> None, username |-> None,
     password |-> None, client_id |-> None, token |-> None,
     authenticated |-> FALSE, prod |-> prod]
NoCall ==
    [call |-> "none", error |-> "none", sent |-> <<>>, returned |-> None,
     before |-> NewConnection(FALSE), now |-> 0, registration |-> None, env |-> None]
NoPayload == [json |-> [TimeLine |-> <<>>], data_type |-> "Temp"]
NoOutput == [error |-> "none", on |-> "none", day |-> 0, band |-> 0, value |-> <<>>]
NoFrame ==
    [error |-> "none", on |-> "none", elevation |-> None, level_index |-> None,
     selected |-> {}, rows |-> <<>>]

Init ==
    \E la \in InputBandLists, lb \in InputBandLists, d \in Dates, r \in Regions :
        /\ lvls = la \o lb
        /\ lists = << [i \in 1..Len(la) |-> i], [i \in 1..Len(lb) |-> Len(la) + i] >>
        /\ days = [a |-> [date |-> 1, region |-> 3003, levels |-> 1],
                   b |-> [date |-> d, region |-> r, levels |-> 2]]
        /\ res = NoResult
        /\ touched = FALSE
        /\ lres = NoLevelResult
        /\ payload = NoPayload
        /\ dres = NoOutput
        /\ conn = NewConnection(FALSE)
        /\ clock = 0
        /\ calls = 0
        /\ sres = NoCall
        /\ aps = <<>>
        /\ frame = NoFrame

Next ==
    \/ \E sn \in {"a", "b"} : Assimilate(sn)
    \/ AppendLevel
    \/ \E v \in {MaxVal} : SetFloor(v)

Spec == Init /\ [][Next]_vars

(***************************************************************************)
(* Level.assimilate on its own: two Levels x = lvls[1] and y = lvls[2].    *)
(***************************************************************************)
\* The values of floor of the two Levels: None, negative, 0 and positive.
LevelNums == {None} \cup {Some(v) : v \in (0 - 1)..MaxVal}

InitLevel ==
    \E xf \in LevelNums, yf \in LevelNums,
       xr \in {None, Some(MaxVal)}, yr \in {None, Some(MaxVal)},
       xi \in {Some(0), Some(1)}, yi \in {Some(0), Some(1)},
       yk \in InputKinds :
        /\ lvls = << [Level EXCEPT !.floor = xf, !.roof = xr, !.index = xi,
                                   !.temp = Some(DataOf(1))],
                     [Level EXCEPT !.floor = yf, !.roof = yr, !.index = yi,
                                   ![yk] = Some(DataOf(2))] >>
        /\ lists = <<>>
        /\ days = <<>>
        /\ res = NoResult
        /\ touched = FALSE
        /\ lres = NoLevelResult
        /\ payload = NoPayload
        /\ dres = NoOutput
        /\ conn = NewConnection(FALSE)
        /\ clock = 0
        /\ calls = 0
        /\ sres = NoCall
        /\ aps = <<>>
        /\ frame = NoFrame

\* lvls[i].assimilate(lvls[j]) for the two Levels, j the other one: the new
\* Level is a new object.
LevelMerge(i) ==
    /\ lres.error = "none"
    /\ LET out == LevelAssimilate(lvls[i], lvls[3 - i])
       IN  IF out.error # NoError
           THEN /\ lres' = [error |-> out.error, self |-> i, level |-> None]
                /\ UNCHANGED lvls
           ELSE /\ lres' = [error |-> NoError, self |-> i, level |-> Some(Len(lvls) + 1)]
                /\ lvls' = Append(lvls, out.level)
    /\ UNCHANGED <<lists, days, res, touched, exportVars, deserVars, connVars>>

NextLevel == \E i \in 1..2 : LevelMerge(i)

SpecLevel == InitLevel /\ [][NextLevel]_vars

(***************************************************************************)
(* Tabular export: Day.to_frame, Timeline.to_frame, Aps.to_frame.          *)
(*                                                                         *)
(* Aps and Timeline are ordered mappings: a sequence of [key, elem] in     *)
(* insertion order.  A table is the sequence of its row keys; a label      *)
(* "floor" is <<floor>> and a label "floor-roof" is <<floor, roof>>.       *)
(***************************************************************************)
MaxElev == 2        \* largest elevation of a band or of a filter

InvalidArgument ==
    "ValueError: Only one of elevation and level_index parameters can be defined"
EmptyTimelineError == "ValueError: No days to find region from"
NoColumnsError == "ValueError: Length of new names must be 1, got 2"
NoObjectsError == "ValueError: No objects to concatenate"

\* d[key] = val on an insertion-ordered dict.
DictPut(d, key, val) ==
    IF \E i \in DOMAIN d : d[i].key = key
    THEN [i \in DOMAIN d |-> IF d[i].key = key THEN [key |-> key, elem |-> val] ELSE d[i]]
    ELSE Append(d, [key |-> key, elem |-> val])

\* Level.get_name
get_name(lvl) == <<lvl.floor>> \o (IF TruthyInt(lvl.roof) THEN <<lvl.roof>> ELSE <<>>)

\* The label '0'.
ZeroName == <<Some(0)>>

\* Day.__bool__
DayBool(day) == \E i \in DOMAIN day.levels : LevelBool(day.levels[i])

\* The condition of the comprehensions of Day.to_frame and Timeline.to_frame:
\*   elevation is None and level_index is None
\*   or elevation and lvl.floor <= elevation and (not lvl.roof or elevation < lvl.roof)
\*   or lvl.index == level_index
LevelSelected(lvl, elevation, level_index) ==
    \/ elevation = None /\ level_index = None
    \/ /\ TruthyInt(elevation)
       /\ lvl.floor[1] <= elevation[1]
       /\ (~TruthyInt(lvl.roof) \/ elevation[1] < lvl.roof[1])
    \/ lvl.index = level_index

\* The dict comprehension over the levels of one Day, from level i on, added to
\* the dict d; the key of a level is prefix followed by its name.
RECURSIVE LevelsDict(_, _, _, _, _, _)
LevelsDict(prefix, levels, elevation, level_index, i, d) ==
    IF i > Len(levels)
    THEN d
    ELSE LevelsDict(prefix, levels, elevation, level_index, i + 1,
                    IF LevelSelected(levels[i], elevation, level_index)
                    THEN DictPut(d, Append(prefix, get_name(levels[i])), levels[i])
                    ELSE d)

\* The bands of a Day that pass the condition, as <<date, position>>.
SelectedOf(day, elevation, level_index) ==
    {<<day.date, i>> : i \in {j \in DOMAIN day.levels :
                                LevelSelected(day.levels[j], elevation, level_index)}}

\* The table has columns when some row holds a Data object: a Level without
\* Data contributes an empty row dict.
HasColumns(d) == \E i \in DOMAIN d : LevelBool(d[i].elem)

\* df.astype('bool').any(axis=1) for a row: some percentile is neither None
\* nor 0.
RowHasValue(lvl) ==
    \E k \in AttrSet :
        /\ lvl[k] # None
        /\ \E pc \in DOMAIN lvl[k][1] : TruthyInt(lvl[k][1][pc])

KeysOf(d) == [i \in DOMAIN d |-> d[i].key]

\* A stable sort of row keys by their first component.
RECURSIVE StableSort(_)
StableSort(rows) ==
    IF rows = <<>>
    THEN <<>>
    ELSE LET x == Head(rows)
             rest == StableSort(Tail(rows))
             Lower(y) == y[1] < x[1]
             NotLower(y) == ~(y[1] < x[1])
         IN  SelectSeq(rest, Lower) \o <<x>> \o SelectSeq(rest, NotLower)

\* Day.to_frame
DayToFrame(day, elevation, level_index) ==
    IF elevation # None /\ level_index # None
    THEN [error |-> InvalidArgument, selected |-> {}, rows |-> <<>>]
    ELSE LET d == LevelsDict(<<>>, day.levels, elevation, level_index, 1, <<>>)
             sel == SelectedOf(day, elevation, level_index)
             Kept(e) == RowHasValue(e.elem) /\ e.key # <<ZeroName>>
         IN  IF ~HasColumns(d)
             THEN [error |-> NoColumnsError, selected |-> sel, rows |-> <<>>]
             ELSE [error |-> NoError, selected |-> sel, rows |-> KeysOf(SelectSeq(d, Kept))]

\* The comprehension of Timeline.to_frame over the Days from number j on.
RECURSIVE TimelineDict(_, _, _, _, _)
TimelineDict(timeline, elevation, level_index, j, d) ==
    IF j > Len(timeline)
    THEN d
    ELSE LET day == timeline[j].elem
         IN  TimelineDict(timeline, elevation, level_index, j + 1,
                          IF DayBool(day)
                          THEN LevelsDict(<<day.date>>, day.levels, elevation, level_index, 1, d)
                          ELSE d)

\* Timeline.to_frame
TimelineToFrame(timeline, elevation, level_index) ==
    LET d == TimelineDict(timeline, elevation, level_index, 1, <<>>)
        sel == UNION {SelectedOf(timeline[j].elem, elevation, level_index) :
                        j \in {n \in DOMAIN timeline : DayBool(timeline[n].elem)}}
    IN  IF timeline = <<>>
        THEN [error |-> EmptyTimelineError, selected |-> sel, rows |-> <<>>]
        ELSE IF ~HasColumns(d)
        THEN [error |-> NoColumnsError, selected |-> sel, rows |-> <<>>]
        ELSE [error |-> NoError, selected |-> sel, rows |-> StableSort(KeysOf(d))]

\* Container truthiness of a Timeline: it holds a Day that holds data.
TimelineBool(timeline) == \E j \in DOMAIN timeline : DayBool(timeline[j].elem)

\* Container._sort: the entries in ascending order of key.
ContainerSort(c) == StableSort([i \in DOMAIN c |-> <<c[i].key, c[i].elem>>])

\* The dict comprehension of Aps.to_frame over the sorted timelines from number
\* j on: the first to_frame that raises ends it.
RECURSIVE ApsFrames(_, _, _, _, _)
ApsFrames(sorted, elevation, level_index, j, acc) ==
    IF j > Len(sorted)
    THEN acc
    ELSE IF ~TimelineBool(sorted[j][2])
    THEN ApsFrames(sorted, elevation, level_index, j + 1, acc)
    ELSE LET f == TimelineToFrame(sorted[j][2], elevation, level_index)
             region == sorted[j][2][1].elem.region
         IN  IF f.error # NoError
             THEN [error |-> f.error, selected |-> acc.selected \cup f.selected, rows |-> <<>>,
                   frames |-> acc.frames]
             ELSE ApsFrames(sorted, elevation, level_index, j + 1,
                            [error |-> NoError,
                             selected |-> acc.selected \cup f.selected,
                             rows |-> acc.rows \o [i \in DOMAIN f.rows |-> <<region>> \o f.rows[i]],
                             frames |-> acc.frames + 1])

\* Aps.to_frame
ApsToFrame(a, elevation, level_index) ==
    LET f == ApsFrames(ContainerSort(a), elevation, level_index, 1,
                       [error |-> NoError, selected |-> {}, rows |-> <<>>, frames |-> 0])
    IN  IF f.error # NoError
        THEN [error |-> f.error, selected |-> f.selected, rows |-> <<>>]
        ELSE IF f.frames = 0
        THEN [error |-> NoObjectsError, selected |-> {}, rows |-> <<>>]
        ELSE [error |-> NoError, selected |-> f.selected, rows |-> StableSort(f.rows)]

\* The Timeline and the Day that the calls are made on.
TheTimeline == aps[1].elem
TheDay == TheTimeline[1].elem

\* One call of to_frame(elevation, level_index) on the Day, the Timeline or the
\* Aps.
ToFrame(on, elevation, level_index) ==
    /\ frame.error = "none"
    /\ LET f == CASE on = "Day" -> DayToFrame(TheDay, elevation, level_index)
                  [] on = "Timeline" -> TimelineToFrame(TheTimeline, elevation, level_index)
                  [] OTHER -> ApsToFrame(aps, elevation, level_index)
       IN  frame' = [error |-> f.error, on |-> on, elevation |-> elevation,
                     level_index |-> level_index, selected |-> f.selected, rows |-> f.rows]
    /\ UNCHANGED <<mergeVars, aps, deserVars, connVars>>

DayCallToFrame(elevation, level_index) == ToFrame("Day", elevation, level_index)
TimelineCallToFrame(elevation, level_index) == ToFrame("Timeline", elevation, level_index)
ApsCallToFrame(elevation, level_index) == ToFrame("Aps", elevation, level_index)

\* The bands of the exported Days: floor below MaxElev, roof above the floor
\* or absent, band index 0 or 1, temperature data.
FrameBands ==
    UNION { { [Level EXCEPT !.floor = Some(f), !.roof = r, !.index = Some(i),
                            !.temp = Some(DataOf(1))] :
                r \in {None} \cup {Some(x) : x \in (f + 1)..MaxElev}, i \in 0..1 } :
            f \in 0..(MaxElev - 1) }

FrameBandLists == UNION {[1..n -> FrameBands] : n \in 0..MaxBands}

FrameDay(date, levels) == [date |-> date, region |-> 3003, levels |-> levels]

\* The filter arguments.
Elevations == {None} \cup {Some(e) : e \in 0..MaxElev}
LevelIndexes == {None, Some(0), Some(1)}

\* A Day with the band [0, 1) of index 0 and the band [1, unbounded) of index 1.
ReferenceDay(date) ==
    FrameDay(date,
        << [Level EXCEPT !.floor = Some(0), !.roof = Some(1), !.index = Some(0),
                         !.temp = Some(DataOf(1))],
           [Level EXCEPT !.floor = Some(1), !.index = Some(1),
                         !.temp = Some(DataOf(1))] >>)

\* An Aps of one region whose Timeline holds two Days: a Day with any bands,
\* set first, and the reference Day; their dates are in either order.
InitFrame ==
    \E levels \in FrameBandLists, date \in Dates :
        /\ aps = << [key |-> 3003,
                     elem |-> << [key |-> date, elem |-> FrameDay(date, levels)],
                                 [key |-> 3 - date, elem |-> ReferenceDay(3 - date)] >>] >>
        /\ frame = NoFrame
        /\ lvls = <<>>
        /\ lists = <<>>
        /\ days = <<>>
        /\ res = NoResult
        /\ touched = FALSE
        /\ lres = NoLevelResult
        /\ payload = NoPayload
        /\ dres = NoOutput
        /\ conn = NewConnection(FALSE)
        /\ clock = 0
        /\ calls = 0
        /\ sres = NoCall

NextFrame ==
    \/ \E e \in Elevations, k \in LevelIndexes : DayCallToFrame(e, k)
    \/ \E e \in Elevations, k \in LevelIndexes : TimelineCallToFrame(e, k)
    \/ \E e \in Elevations, k \in LevelIndexes : ApsCallToFrame(e, k)

SpecFrame == InitFrame /\ [][NextFrame]_vars

(***************************************************************************)
(* Deserialisation: Data, Level, Day, Timeline and Aps .deserialize.       *)
(*                                                                         *)
(* A json object is a record with the keys the code reads; a json number   *)
(* is <<v>> and a json null is <<>>.  FormattedDate is the pair of its     *)
(* first 10 characters (the date) and the rest (the time of day).          *)
(* data_type is the name of the class passed, or "Temp()" for an instance  *)
(* passed in place of a class.                                             *)
(***************************************************************************)
MaxStat == 1        \* largest Minimum of the percentile statistics of a band

NoRegionsError == "ValueError: No regions in timeline"
NotATypeError ==
    "ValueError: data_type should be a type (uninstatiated class), not an object."
DataItselfError == "ValueError: data_type must be a subclase of aps.Data"
NotDataSubclassError == "ValueError: data_type must be a subclass of aps.Data"
UnknownDataTypeError == "ValueError: Unknown data_type"

\* WEATHER_ATTRS, as a mapping of the class to the attribute name.
WeatherAttrOf ==
    [Precip |-> "precip", PrecipMax |-> "precip_max", Temp |-> "temp", Wind |-> "wind",
     SnowDepth |-> "snow_depth", NewSnow |-> "new_snow", NewSnowMax |-> "new_snow_max"]

\* The classes derived from Data: those of WEATHER_ATTRS and a caller's own.
DataSubclasses == DOMAIN WeatherAttrOf \cup {"CustomData"}

\* What a caller may pass as data_type: a class derived from Data, Data itself,
\* another class, or an instance.
DataTypes == DataSubclasses \cup {"Data", "object", "Temp()"}
IsType(data_type) == data_type # "Temp()"

\* Data.deserialize
DataDeserialize(json) ==
    [Data EXCEPT !.perc00 = json.Minimum,
                 !.perc05 = json.Perc05,
                 !.perc25 = json.FirstQuartile,
                 !.perc50 = json.Median,
                 !.perc75 = json.ThirdQuartile,
                 !.perc95 = json.Perc05,
                 !.perc100 = json.Maximum]

\* Level.deserialize: the error raised, or the Level.
LevelDeserialize(json, data_type) ==
    IF ~IsType(data_type)
    THEN [error |-> NotATypeError, level |-> Level]
    ELSE IF data_type = "Data"
    THEN [error |-> DataItselfError, level |-> Level]
    ELSE IF data_type \notin DataSubclasses
    THEN [error |-> NotDataSubclassError, level |-> Level]
    ELSE IF data_type \notin DOMAIN WeatherAttrOf
    THEN [error |-> UnknownDataTypeError, level |-> Level]
    ELSE [error |-> NoError,
          level |-> [Level EXCEPT
                        !.floor = json.ElevationBottom,
                        !.roof = IF TruthyInt(json.ElevationTop) THEN json.ElevationTop ELSE None,
                        !.index = json.ElevationBand,
                        ![WeatherAttrOf[data_type]] = Some(DataDeserialize(json))]]

\* dt.date.fromisoformat(s[:10]): the date of the first 10 characters.
IsoDate(formatted) == formatted[1]

\* The loop of Day.deserialize over elevation_list from entry i on; the first
\* Level.deserialize that raises ends it.
RECURSIVE DeserializeLevels(_, _, _, _)
DeserializeLevels(elevation_list, data_type, i, acc) ==
    IF i > Len(elevation_list)
    THEN [error |-> NoError, levels |-> acc]
    ELSE LET level == LevelDeserialize(elevation_list[i], data_type)
         IN  IF level.error # NoError
             THEN [error |-> level.error, levels |-> acc]
             ELSE DeserializeLevels(elevation_list, data_type, i + 1, Append(acc, level.level))

NoDay == [date |-> 0, region |-> 0, levels |-> <<>>]

\* Day.deserialize: the error raised, or the Day.  SnowRegion(int(RegionId)) is
\* the region of that id.
DayDeserialize(json, data_type) ==
    LET region_list == json.Regions
    IN  IF region_list = <<>>
        THEN [error |-> NoRegionsError, day |-> NoDay]
        ELSE LET levels == DeserializeLevels(region_list[1].ElevationData, data_type, 1, <<>>)
             IN  IF levels.error # NoError
                 THEN [error |-> levels.error, day |-> NoDay]
                 ELSE [error |-> NoError,
                       day |-> [date |-> IsoDate(json.FormattedDate),
                                region |-> region_list[1].RegionId,
                                levels |-> levels.levels]]

\* The loop of Timeline.deserialize over json["TimeLine"] from day j on.
RECURSIVE DeserializeDays(_, _, _, _)
DeserializeDays(time_line, data_type, j, timeline) ==
    IF j > Len(time_line)
    THEN [error |-> NoError, timeline |-> timeline]
    ELSE LET date == IsoDate(time_line[j].FormattedDate)
             day == DayDeserialize(time_line[j], data_type)
         IN  IF day.error # NoError
             THEN [error |-> day.error, timeline |-> <<>>]
             ELSE DeserializeDays(time_line, data_type, j + 1, DictPut(timeline, date, day.day))

\* Timeline.deserialize
TimelineDeserialize(json, data_type) ==
    DeserializeDays(json.TimeLine, data_type, 1, <<>>)

\* Aps.deserialize: the Timeline is stored under Timeline.get_region(), the
\* region of its first Day, which raises when the Timeline is empty.
ApsDeserialize(json, data_type) ==
    LET timeline == TimelineDeserialize(json, data_type)
    IN  IF timeline.error # NoError
        THEN [error |-> timeline.error, aps |-> <<>>]
        ELSE IF timeline.timeline = <<>>
        THEN [error |-> EmptyTimelineError, aps |-> <<>>]
        ELSE [error |-> NoError,
              aps |-> DictPut(<<>>, timeline.timeline[1].elem.region, timeline.timeline)]

\* Level.deserialize(band, data_type) for band number i of the first region of
\* day number j of the payload.
CallLevelDeserialize(j, i) ==
    /\ dres.error = "none"
    /\ j \in DOMAIN payload.json.TimeLine
    /\ payload.json.TimeLine[j].Regions # <<>>
    /\ i \in DOMAIN payload.json.TimeLine[j].Regions[1].ElevationData
    /\ LET r == LevelDeserialize(payload.json.TimeLine[j].Regions[1].ElevationData[i],
                                 payload.data_type)
       IN  dres' = [error |-> r.error, on |-> "Level", day |-> j, band |-> i,
                   value |-> IF r.error = NoError THEN <<r.level>> ELSE <<>>]
    /\ UNCHANGED <<mergeVars, exportVars, payload, connVars>>

\* Day.deserialize(day, data_type) for day number j of the payload.
CallDayDeserialize(j) ==
    /\ dres.error = "none"
    /\ j \in DOMAIN payload.json.TimeLine
    /\ LET r == DayDeserialize(payload.json.TimeLine[j], payload.data_type)
       IN  dres' = [error |-> r.error, on |-> "Day", day |-> j, band |-> 0,
                   value |-> IF r.error = NoError THEN <<r.day>> ELSE <<>>]
    /\ UNCHANGED <<mergeVars, exportVars, payload, connVars>>

\* Timeline.deserialize(json, data_type)
CallTimelineDeserialize ==
    /\ dres.error = "none"
    /\ LET r == TimelineDeserialize(payload.json, payload.data_type)
       IN  dres' = [error |-> r.error, on |-> "Timeline", day |-> 0, band |-> 0,
                   value |-> IF r.error = NoError THEN <<r.timeline>> ELSE <<>>]
    /\ UNCHANGED <<mergeVars, exportVars, payload, connVars>>

\* Aps.deserialize(json, data_type)
CallApsDeserialize ==
    /\ dres.error = "none"
    /\ LET r == ApsDeserialize(payload.json, payload.data_type)
       IN  dres' = [error |-> r.error, on |-> "Aps", day |-> 0, band |-> 0,
                   value |-> IF r.error = NoError THEN <<r.aps>> ELSE <<>>]
    /\ UNCHANGED <<mergeVars, exportVars, payload, connVars>>

\* The percentile statistics of a band of the payload: seven increasing
\* values from Minimum = m on, or seven times the value 1.
JsonStats ==
    { [Minimum |-> Some(m), Perc05 |-> Some(m + 1), FirstQuartile |-> Some(m + 2),
       Median |-> Some(m + 3), ThirdQuartile |-> Some(m + 4), Perc95 |-> Some(m + 5),
       Maximum |-> Some(m + 6)] : m \in 0..MaxStat }
    \cup { [Minimum |-> Some(1), Perc05 |-> Some(1), FirstQuartile |-> Some(1),
            Median |-> Some(1), ThirdQuartile |-> Some(1), Perc95 |-> Some(1),
            Maximum |-> Some(1)] }

JsonBand(stats, top, band) ==
    [ElevationBottom |-> Some(0), ElevationTop |-> top, ElevationBand |-> Some(band),
     Minimum |-> stats.Minimum, Perc05 |-> stats.Perc05,
     FirstQuartile |-> stats.FirstQuartile, Median |-> stats.Median,
     ThirdQuartile |-> stats.ThirdQuartile, Perc95 |-> stats.Perc95,
     Maximum |-> stats.Maximum]

\* The bands of a region entry: none, one band, or that band and a second.
JsonBandLists ==
    {<<>>}
    \cup { <<JsonBand(s, top, 1)>> : s \in JsonStats, top \in {None, Some(0), Some(500)} }
    \cup { <<JsonBand(s, Some(500), 1),
             [JsonBand(s, None, 2) EXCEPT !.ElevationBottom = Some(500)]>> : s \in JsonStats }

\* The region entries of a day: none, one, or one followed by a second that
\* is never read.
JsonRegionLists ==
    {<<>>}
    \cup { <<[RegionId |-> r, ElevationData |-> bands]>> :
             r \in Regions, bands \in JsonBandLists }
    \cup { <<[RegionId |-> r, ElevationData |-> bands],
             [RegionId |-> 3010, ElevationData |-> <<>>]>> :
             r \in Regions, bands \in {<<>>} }

JsonDays ==
    { [FormattedDate |-> <<d, "T00:00:00">>, Regions |-> regions] :
        d \in Dates, regions \in JsonRegionLists }

\* The later days of the payload: one band or none, a region entry or none.
JsonLaterDays ==
    { [FormattedDate |-> <<d, "T12:00:00">>, Regions |-> regions] :
        d \in Dates,
        regions \in {<<>>}
            \cup { <<[RegionId |-> r, ElevationData |-> bands]>> :
                     r \in Regions,
                     bands \in {<<>>, <<JsonBand(CHOOSE s \in JsonStats : s.Minimum = Some(0),
                                                 None, 1)>>} } }

JsonTimeLines ==
    {<<>>} \cup { <<d>> : d \in JsonDays }
           \cup { <<d, e>> : d \in JsonDays, e \in JsonLaterDays }

InitDeser ==
    \E time_line \in JsonTimeLines, data_type \in DataTypes :
        /\ payload = [json |-> [TimeLine |-> time_line], data_type |-> data_type]
        /\ dres = NoOutput
        /\ conn = NewConnection(FALSE)
        /\ clock = 0
        /\ calls = 0
        /\ sres = NoCall
        /\ aps = <<>>
        /\ frame = NoFrame
        /\ lvls = <<>>
        /\ lists = <<>>
        /\ days = <<>>
        /\ res = NoResult
        /\ touched = FALSE
        /\ lres = NoLevelResult

NextDeser ==
    \/ \E j \in 1..2, i \in 1..2 : CallLevelDeserialize(j, i)
    \/ \E j \in 1..2 : CallDayDeserialize(j)
    \/ CallTimelineDeserialize
    \/ CallApsDeserialize

SpecDeser == InitDeser /\ [][NextDeser]_vars

(***************************************************************************)
(* The Connection: authenticate and submit.                                *)
(*                                                                         *)
(* A call runs at one time of day, Now.  The servers' answers to the       *)
(* requests of a call are its env: whether the token endpoint grants a     *)
(* token and for how long, and the status of each request to the API.      *)
(* sres.sent lists the requests the call has sent, in order.               *)
(***************************************************************************)
MaxTicks == 3           \* the clock stops after this many ticks
MaxCalls == 2           \* calls made on the Connection
MaxImages == 1          \* images attached to a registration
TickSeconds == 30       \* seconds in a tick of the clock
RefreshMargin == 60     \* submit renews a token that expires sooner than this
RecursionLimit == 3     \* nested calls of submit before RecursionError

NotAuthenticatedError == "NotAuthenticatedError: Connection not authenticated."
NoObservationError == "NoObservationError: No observation in registration."
ApiError == "ApiError"
KeyError == "KeyError: 'access_token'"
TypeError == "TypeError: authenticate() takes 5 positional arguments but 6 were given"
RecursionError == "RecursionError: maximum recursion depth exceeded"

Now == clock * TickSeconds

\* The positional parameters of authenticate after self.
AuthenticateParams == <<"username", "password", "client_id", "token">>

\* The positional arguments submit passes to authenticate.
SubmitAuthenticateArgs(c) == <<c.username, c.password, c.client_id, c.token, Some(c.prod)>>

AuthUrl(c) == IF c.prod THEN "AUTH_PROD" ELSE "AUTH_TEST"
ApiUrl(c) == IF c.prod THEN "API_PROD" ELSE "API_TEST"

\* Connection.authenticate(username, password, client_id, token) at time now:
\* the fields after the call, the requests sent and the error raised.
Authenticate(c, now, username, password, client_id, token, env) ==
    LET c1 == [c EXCEPT !.username = username, !.password = password,
                        !.client_id = client_id, !.token = token,
                        !.session = Some([regObs_apptoken |-> token, Authorization |-> None])]
        post == [method |-> "POST", url |-> AuthUrl(c),
                 body |-> [client_id |-> client_id, username |-> username,
                           password |-> password]]
        c2 == [c1 EXCEPT !.session = Some([regObs_apptoken |-> token,
                                           Authorization |-> Some(env.access_token)]),
                         !.expires = Some(now + env.expires_in)]
        get == [method |-> "GET", url |-> <<ApiUrl(c), "Account/Mypage">>,
                body |-> c2.session[1]]
    IN  IF ~env.granted
        THEN [conn |-> c1, sent |-> <<post>>, error |-> KeyError]
        ELSE IF env.mypage # 200
        THEN [conn |-> c2, sent |-> <<post, get>>, error |-> ApiError]
        ELSE [conn |-> [c2 EXCEPT !.guid = Some(env.guid), !.authenticated = TRUE],
              sent |-> <<post, get>>, error |-> NoError]

\* The loop of submit over the images from number i on: a POST per image,
\* ended by the first that is not answered 200.
RECURSIVE UploadImages(_, _, _, _, _)
UploadImages(c, registration, env, i, sent) ==
    IF i > registration.images
    THEN [sent |-> sent, error |-> NoError]
    ELSE LET post == [method |-> "POST", url |-> <<ApiUrl(c), "Attachment/Upload">>,
                      body |-> <<registration.id, i>>]
         IN  IF env.upload # 200
             THEN [sent |-> Append(sent, post), error |-> ApiError]
             ELSE UploadImages(c, registration, env, i + 1, Append(sent, post))

\* Connection.submit(registration, language) at time now, as nested call
\* number depth: the fields after the call, the requests sent, the error
\* raised and the value returned.
RECURSIVE Submit(_, _, _, _, _, _)
Submit(c, now, registration, language, env, depth) ==
    IF depth > RecursionLimit
    THEN [conn |-> c, sent |-> <<>>, error |-> RecursionError, returned |-> None]
    ELSE IF ~c.authenticated
    THEN [conn |-> c, sent |-> <<>>, error |-> NotAuthenticatedError, returned |-> None]
    ELSE IF c.expires[1] < now + RefreshMargin
    THEN LET args == SubmitAuthenticateArgs(c)
         IN  IF Len(args) # Len(AuthenticateParams)
             THEN [conn |-> c, sent |-> <<>>, error |-> TypeError, returned |-> None]
             ELSE LET a == Authenticate(c, now, args[1], args[2], args[3], args[4], env)
                  IN  IF a.error # NoError
                      THEN [conn |-> a.conn, sent |-> a.sent, error |-> a.error,
                            returned |-> None]
                      ELSE LET r == Submit(a.conn, now, registration, 1, env, depth + 1)
                           IN  [r EXCEPT !.sent = a.sent \o r.sent]
    ELSE IF ~registration.any_obs
    THEN [conn |-> c, sent |-> <<>>, error |-> NoObservationError, returned |-> None]
    ELSE LET up == UploadImages(c, registration, env, 1, <<>>)
             post == [method |-> "POST", url |-> <<ApiUrl(c), "Registration">>,
                      body |-> registration.id]
             get == [method |-> "GET",
                     url |-> <<ApiUrl(c), "Registration", env.reg_id, language>>,
                     body |-> c.session[1]]
         IN  IF up.error # NoError
             THEN [conn |-> c, sent |-> up.sent, error |-> up.error, returned |-> None]
             ELSE IF env.post # 200
             THEN [conn |-> c, sent |-> Append(up.sent, post), error |-> ApiError,
                   returned |-> None]
             ELSE IF env.get # 200
             THEN [conn |-> c, sent |-> up.sent \o <<post, get>>, error |-> ApiError,
                   returned |-> None]
             ELSE [conn |-> c, sent |-> up.sent \o <<post, get>>, error |-> NoError,
                   returned |-> Some([RegId |-> env.reg_id, registration |-> registration.id])]

\* The NVE accounts a caller may sign in with.
Accounts ==
    { [username |-> Some("ola"), password |-> Some("pw1"), client_id |-> Some("c1"),
       token |-> Some("app1")],
      [username |-> Some("kari"), password |-> Some("pw2"), client_id |-> Some("c2"),
       token |-> Some("app2")] }

\* The servers' answers to the requests of one call.
StatusCodes == {200, 500}
Envs ==
    [granted : BOOLEAN, expires_in : {TickSeconds, 3 * TickSeconds},
     access_token : {"jwt"}, guid : {"guid"}, mypage : StatusCodes,
     upload : StatusCodes, post : StatusCodes, get : StatusCodes, reg_id : {7}]

\* The registrations a caller may submit.
Registrations == [id : {"r1", "r2"}, any_obs : BOOLEAN, images : 0..MaxImages]

\* conn.authenticate(username, password, client_id, token)
CallAuthenticate(account, env) ==
    /\ calls < MaxCalls
    /\ (~env.granted => env.mypage = 200)
    /\ env.upload = 200 /\ env.post = 200 /\ env.get = 200
    /\ LET a == Authenticate(conn, Now, account.username, account.password,
                             account.client_id, account.token, env)
       IN  /\ conn' = a.conn
           /\ sres' = [call |-> "authenticate", error |-> a.error, sent |-> a.sent,
                       returned |-> None, before |-> conn, now |-> Now,
                       registration |-> None, env |-> Some(env)]
    /\ calls' = calls + 1
    /\ UNCHANGED <<mergeVars, exportVars, deserVars, clock>>

\* conn.submit(registration)
CallSubmit(registration, env) ==
    /\ calls < MaxCalls
    /\ (~env.granted => env.mypage = 200)
    /\ LET r == Submit(conn, Now, registration, 1, env, 1)
       IN  /\ conn' = r.conn
           /\ sres' = [call |-> "submit", error |-> r.error, sent |-> r.sent,
                       returned |-> r.returned, before |-> conn, now |-> Now,
                       registration |-> Some(registration), env |-> Some(env)]
    /\ calls' = calls + 1
    /\ UNCHANGED <<mergeVars, exportVars, deserVars, clock>>

\* Time passes between two calls.
Tick ==
    /\ clock < MaxTicks
    /\ clock' = clock + 1
    /\ UNCHANGED <<mergeVars, exportVars, deserVars, conn, calls, sres>>

InitConn ==
    \E prod \in BOOLEAN :
        /\ conn = NewConnection(prod)
        /\ clock = 0
        /\ calls = 0
        /\ sres = NoCall
        /\ payload = NoPayload
        /\ dres = NoOutput
        /\ aps = <<>>
        /\ frame = NoFrame
        /\ lvls = <<>>
        /\ lists = <<>>
        /\ days = <<>>
        /\ res = NoResult
        /\ touched = FALSE
        /\ lres = NoLevelResult

NextConn ==
    \/ \E account \in Accounts, env \in Envs : CallAuthenticate(account, env)
    \/ \E registration \in Registrations, env \in Envs : CallSubmit(registration, env)
    \/ Tick

SpecConn == InitConn /\ [][NextConn]_vars

(***************************************************************************)
(* Properties of the merge.                                                *)
(***************************************************************************)
\* The two sides of the call made, the Levels they hold, and the Levels of
\* the returned Day.
SelfLevels == LevelsOf(days[res.self].levels)
OtherLevels == LevelsOf(days[Other(res.self)].levels)
ResultLevels == LevelsOf(res.day[1].levels)

\* Day.assimilate has been called and nothing was changed since.
Called == res.error # "none" /\ ~touched

SameDateRegion ==
    days["a"].date = days["b"].date /\ days["a"].region = days["b"].region

\* A Level holds a Measurement for kind k.
Holds(lvl, k) == lvl[k] # None

\* The bands paired at position i (0-based): the shorter side repeats its last.
PairedSelf(i) == SelfLevels[Min(i, Len(SelfLevels) - 1) + 1]
PairedOther(i) == OtherLevels[Min(i, Len(OtherLevels) - 1) + 1]
Positions == 0..(Max(Len(SelfLevels), Len(OtherLevels)) - 1)

\* Some positionally paired bands both hold a Measurement of one kind.
PairedConflict ==
    /\ SelfLevels # <<>>
    /\ OtherLevels # <<>>
    /\ \E i \in Positions, k \in AttrSet : Holds(PairedSelf(i), k) /\ Holds(PairedOther(i), k)

\* Some band of one side and some band of the other side carry the same band
\* index and both hold a Measurement of one kind.
SameIndexConflict ==
    \E i \in DOMAIN SelfLevels, j \in DOMAIN OtherLevels, k \in AttrSet :
        /\ SelfLevels[i].index = OtherLevels[j].index
        /\ Holds(SelfLevels[i], k)
        /\ Holds(OtherLevels[j], k)

\* C1 as stated: for Days of equal date and region, whenever a band of one
\* side and a band of the other side carry the same band index and both hold a
\* Measurement of the same kind, Day.assimilate fails with ConflictingData.
C1_SameIndexConflictFails ==
    (Called /\ SameDateRegion /\ SameIndexConflict) => res.error = ConflictingData

\* C1 amended: for Days of equal date and region, whenever two bands that the
\* merge pairs by position (a[min(i, len(a)-1)] with b[min(i, len(b)-1)]) both
\* hold a Measurement of the same kind, Day.assimilate fails with
\* ConflictingData, for every combination of band counts.
C1_PairedConflictFails ==
    (Called /\ SameDateRegion /\ PairedConflict) => res.error = ConflictingData

\* C1 witness: a merge of 2 bands with 3 bands failed with ConflictingData and
\* the conflict is only at the last position, where the shorter side's last
\* band is reused.
C1_Witness ==
    /\ Called
    /\ res.error = ConflictingData
    /\ Len(SelfLevels) = 2
    /\ Len(OtherLevels) = 3
    /\ \A i \in 0..1, k \in AttrSet : ~(Holds(PairedSelf(i), k) /\ Holds(PairedOther(i), k))

\* The Levels of the Day that the call in the other argument order returns.
ReverseCall == DayAssimilate(days[Other(res.self)], days[res.self])
ReverseLevels ==
    CASE ReverseCall.src = "other" -> SelfLevels
      [] ReverseCall.src = "self" -> OtherLevels
      [] OTHER -> ReverseCall.levels

\* C2: for Days of equal date and region whose paired bands never both hold a
\* Measurement of the same kind, A.assimilate(B) and B.assimilate(A) both
\* succeed and return the same number of bands with, position by position,
\* the same floor, roof, index and the same Measurement in each slot.
C2_Commutative ==
    (Called /\ SameDateRegion /\ ~PairedConflict) =>
        /\ res.error = NoError
        /\ ReverseCall.error = NoError
        /\ ResultLevels = ReverseLevels

\* What the caller can read of the two inputs: date, region and the Levels.
InputValues ==
    [n \in {"a", "b"} |->
        [date |-> days[n].date, region |-> days[n].region,
         levels |-> LevelsOf(days[n].levels)]]

\* The ids of the Level objects of the two inputs.
InputLevelIds ==
    {lists[days[n].levels][i] : n \in {"a"}, i \in DOMAIN lists[days["a"].levels]}
        \cup {lists[days[n].levels][i] : n \in {"b"}, i \in DOMAIN lists[days["b"].levels]}

\* The returned Day's list and Levels are objects of neither input.
ResultFresh ==
    res.error = NoError =>
        /\ res.day[1].levels \notin {days["a"].levels, days["b"].levels}
        /\ \A i \in DOMAIN lists[res.day[1].levels] :
               lists[res.day[1].levels][i] \notin InputLevelIds

\* C3: a merge never changes its inputs, the returned Day's band sequence and
\* bands are objects shared with neither input (also when one side has no
\* bands), and no later change to the result changes an input.
C3_InputsIsolated ==
    /\ []ResultFresh
    /\ [][InputValues' = InputValues]_vars

\* The merge of a numeric field as C4 states it: the larger value when both
\* are present, else the one that is present.
LargerOrPresent(x, y) ==
    IF x # None /\ y # None
    THEN Some(Max(x[1], y[1]))
    ELSE IF x # None THEN x ELSE y

\* C4: floor, roof and index of the Level that Level.assimilate returns are
\* each the larger of the two input values when both are present and else the
\* one that is present, for every integer including 0, in both orders.
C4_NumericFields ==
    lres.error = NoError =>
        LET r == lvls[lres.level[1]]
            s == lvls[lres.self]
            o == lvls[3 - lres.self]
        IN  \A f \in {"floor", "roof", "index"} : r[f] = LargerOrPresent(s[f], o[f])

\* C5: when one side has no bands the returned Day has exactly the other
\* side's bands in order; otherwise it has max(len(a), len(b)) bands and the
\* band at position i is the Level merge of a[min(i, len(a)-1)] with
\* b[min(i, len(b)-1)].
C5_PositionalPairing ==
    (Called /\ res.error = NoError) =>
        IF SelfLevels = <<>> THEN ResultLevels = OtherLevels
        ELSE IF OtherLevels = <<>> THEN ResultLevels = SelfLevels
        ELSE /\ Len(ResultLevels) = Max(Len(SelfLevels), Len(OtherLevels))
             /\ \A i \in Positions :
                    LET m == LevelAssimilate(PairedSelf(i), PairedOther(i))
                    IN  m.error = NoError /\ ResultLevels[i + 1] = m.level

\* C5 witness: a merge of 2 bands with 3 bands has returned 3 bands.
C5_Witness ==
    /\ Called
    /\ res.error = NoError
    /\ Len(SelfLevels) = 2
    /\ Len(OtherLevels) = 3
    /\ Len(ResultLevels) = 3

\* C5 witness of the other case: one side has no bands, the other has some.
C5_WitnessEmptySide ==
    Called /\ res.error = NoError /\ SelfLevels = <<>> /\ Len(OtherLevels) = 2

\* C6: when the two Days differ in date or region, Day.assimilate fails with
\* IncompatibleMerge whatever the bands are: no Day is returned, no band has
\* been merged and no Level has been made.
C6_IncompatibleFirst ==
    (res.error # "none" /\ ~SameDateRegion) =>
        /\ res.error = IncompatibleMerge
        /\ res.day = None
        /\ res.calls = 0
        /\ Len(lvls) = Cardinality(InputLevelIds)
        /\ Len(lists) = 2

\* C6 witness: the Days differ in region only, their first bands both hold a
\* Measurement of the same kind, and the call failed with IncompatibleMerge.
C6_Witness ==
    /\ res.error = IncompatibleMerge
    /\ days["a"].date = days["b"].date
    /\ days["a"].region # days["b"].region
    /\ PairedConflict

(***************************************************************************)
(* Properties of the tabular export.                                       *)
(***************************************************************************)
\* The Days that the call made reads.
FrameDays ==
    IF frame.on = "Day"
    THEN {TheDay}
    ELSE {TheTimeline[j].elem : j \in DOMAIN TheTimeline}

\* The bands of those Days that satisfy P, as <<date, position>>.
BandsWhere(P(_)) ==
    UNION { {<<day.date, i>> : i \in {j \in DOMAIN day.levels : P(day.levels[j])}} :
            day \in FrameDays }

\* C7: to_frame with both an elevation and a level_index fails with
\* InvalidArgument on an Aps, on a Timeline and on a Day, and never returns a
\* table.
C7_FiltersExclusive ==
    (frame.error # "none" /\ frame.elevation # None /\ frame.level_index # None) =>
        frame.error = InvalidArgument

\* C8: with only an elevation e the selected bands are exactly those with
\* floor <= e and (roof absent or e < roof), for every integer e including 0;
\* with only a level_index k they are exactly those whose index is k; with
\* neither filter every band is selected.
C8_FilterSelects ==
    LET e == frame.elevation
        k == frame.level_index
        Contains(lvl) == lvl.floor[1] <= e[1] /\ (lvl.roof = None \/ e[1] < lvl.roof[1])
        HasIndex(lvl) == lvl.index = k
        EveryBand(lvl) == TRUE
    IN  (frame.error # "none") =>
            /\ (e # None /\ k = None) => frame.selected = BandsWhere(Contains)
            /\ (e = None /\ k # None) => frame.selected = BandsWhere(HasIndex)
            /\ (e = None /\ k = None) => frame.selected = BandsWhere(EveryBand)

(***************************************************************************)
(* Properties of the deserialisation.                                      *)
(***************************************************************************)
\* The json of the day and of the band that the call made was given.
CalledDay == payload.json.TimeLine[dres.day]
CalledBand == CalledDay.Regions[1].ElevationData[dres.band]

\* C9: for a well-formed band and each of the seven recognized kinds,
\* Level.deserialize returns a band whose slot for the requested kind holds a
\* Measurement with the percentiles 0, 5, 25, 50, 75, 95, 100 equal to the
\* payload's Minimum, Perc05, FirstQuartile, Median, ThirdQuartile, Perc95,
\* Maximum, and whose other six slots are empty; a day with an empty
\* elevation-band list is still recorded, as a Day with zero bands.
C9_LevelDeserialize ==
    /\ (dres.on = "Level" /\ payload.data_type \in DOMAIN WeatherAttrOf) =>
           /\ dres.error = NoError
           /\ LET level == dres.value[1]
                  attr == WeatherAttrOf[payload.data_type]
              IN  /\ level[attr] =
                         Some([perc00 |-> CalledBand.Minimum,
                               perc05 |-> CalledBand.Perc05,
                               perc25 |-> CalledBand.FirstQuartile,
                               perc50 |-> CalledBand.Median,
                               perc75 |-> CalledBand.ThirdQuartile,
                               perc95 |-> CalledBand.Perc95,
                               perc100 |-> CalledBand.Maximum])
                  /\ \A k \in AttrSet \ {attr} : level[k] = None
    /\ (/\ dres.on = "Day"
        /\ CalledDay.Regions # <<>>
        /\ CalledDay.Regions[1].ElevationData = <<>>) =>
           /\ dres.error = NoError
           /\ dres.value[1].levels = <<>>

\* C10: after a successful Timeline.deserialize or Aps.deserialize every Day of
\* the resulting Timeline has the same region, and the Aps holds exactly one
\* Timeline, stored under that region.
C10_OneRegion ==
    /\ (dres.on = "Timeline" /\ dres.error = NoError) =>
           \A m, n \in DOMAIN dres.value[1] :
               dres.value[1][m].elem.region = dres.value[1][n].elem.region
    /\ (dres.on = "Aps" /\ dres.error = NoError) =>
           /\ Len(dres.value[1]) = 1
           /\ \A n \in DOMAIN dres.value[1][1].elem :
                  dres.value[1][1].elem[n].elem.region = dres.value[1][1].key

(***************************************************************************)
(* Properties of the Connection.                                           *)
(***************************************************************************)
\* The last call was submit on a Connection that was authenticated and whose
\* token expired less than RefreshMargin seconds after the call.
SubmitNearExpiry ==
    /\ sres.call = "submit"
    /\ sres.before.authenticated
    /\ sres.before.expires[1] < sres.now + RefreshMargin

\* The servers granted a token that outlasts the margin and answered every
\* request of the call with 200.
ServersAgree ==
    /\ sres.env[1].granted
    /\ sres.env[1].expires_in >= RefreshMargin
    /\ \A k \in {"mypage", "upload", "post", "get"} : sres.env[1][k] = 200

\* The request that signs in with the credentials stored before the call.
SignIn ==
    [method |-> "POST", url |-> AuthUrl(sres.before),
     body |-> [client_id |-> sres.before.client_id, username |-> sres.before.username,
               password |-> sres.before.password]]

\* C11: submit on an unauthenticated Connection fails with
\* NotAuthenticatedError and sends no request; submit on an authenticated
\* Connection whose token expires less than 60 seconds from now first signs
\* in again with the stored username, password, client id and token and then
\* submits the same registration, whose submitted form it returns when the
\* registration holds an observation and the servers answer every request
\* with success.
C11_SubmitRenewsToken ==
    /\ (sres.call = "submit" /\ ~sres.before.authenticated) =>
           /\ sres.error = NotAuthenticatedError
           /\ sres.sent = <<>>
    /\ (SubmitNearExpiry /\ ServersAgree /\ sres.registration[1].any_obs) =>
           /\ sres.error = NoError
           /\ sres.sent # <<>>
           /\ sres.sent[1] = SignIn
           /\ conn.token = sres.before.token
           /\ \E n \in 2..Len(sres.sent) :
                  /\ sres.sent[n].method = "POST"
                  /\ sres.sent[n].url = <<ApiUrl(conn), "Registration">>
                  /\ sres.sent[n].body = sres.registration[1].id
           /\ sres.returned =
                  Some([RegId |-> sres.env[1].reg_id,
                        registration |-> sres.registration[1].id])

====
